---- MODULE Spec2Model ----
(***************************************************************************)
(* A model of pallets/multisig/src/lib.rs: the on-chain multisig wallet    *)
(* pallet.  The five extrinsics are operators over a storage record, so    *)
(* that the call dispatched by execute_proposal (which may itself be an    *)
(* extrinsic of this pallet, run under the wallet's sovereign account) is  *)
(* evaluated inside the same atomic transition.                            *)
(***************************************************************************)
EXTENDS Integers, Sequences, FiniteSets, TLC

(***************************************************************************)
(* Bounds of the model.                                                    *)
(***************************************************************************)
\* T::MaxOwners, the capacity of the owner and approval BoundedVecs.
MaxOwners == 2
\* The largest value of the MultisigId counter (u32::MAX, narrowed).
MaxMultisigId == 2
\* The largest value of a ProposalIndex counter (u32::MAX, narrowed).
MaxProposalIndex == 2
\* The largest free balance a sovereign account is given.
MaxBalance == 1
\* The signed accounts that send extrinsics.
NumUsers == 3
\* The number of stored proposals at which no further proposal is submitted.
MaxProposals == 2

Users == 1..NumUsers
MultisigIds == 0..(MaxMultisigId - 1)
ProposalIndices == 0..(MaxProposalIndex - 1)

(***************************************************************************)
(* Hashing and address derivation.                                         *)
(***************************************************************************)
RECURSIVE hash_fold(_, _)
hash_fold(h, bytes) ==
    IF bytes = <<>> THEN h
    ELSE hash_fold((h * 31 + Head(bytes) + 1) % 65536, Tail(bytes))

\* blake2_256, narrowed to a 16-bit digest of the byte string.
blake2_256(bytes) == hash_fold(7, bytes)

\* b"pba/multisig"
Namespace == <<112, 98, 97, 47, 109, 117, 108, 116, 105, 115, 105, 103>>

\* (b"pba/multisig", seed).using_encoded(blake2_256), decoded as an AccountId.
multi_account_id(seed) == 65536 + blake2_256(Namespace \o <<seed>>)

SovereignAccounts == {multi_account_id(id) : id \in MultisigIds}

(***************************************************************************)
(* Runtime calls (the payloads of proposals).                              *)
(***************************************************************************)
NoCall == [fn |-> "none"]
TransferAll == [fn |-> "transfer_all"]
Destroy(id) == [fn |-> "destroy_multisig", multisig_id |-> id]
Execute(id, idx, c) ==
    [fn |-> "execute_proposal", multisig_id |-> id, proposal_index |-> idx, call |-> c]

\* The calls proposed and executed: a transfer of the sovereign balance, the
\* destruction of wallet 0 (by itself, or attempted by another wallet), and the
\* execution of wallet 0's proposal 0 from inside another proposal.
Calls == {TransferAll, Destroy(0), Execute(0, 0, Destroy(0))}

\* call.encode(): pallet index, call index, arguments.
RECURSIVE encode(_)
encode(c) ==
    CASE c.fn = "transfer_all" -> <<1, 4, 0>>
      [] c.fn = "destroy_multisig" -> <<2, 4, c.multisig_id>>
      [] c.fn = "execute_proposal" ->
            <<2, 3, c.multisig_id, c.proposal_index>> \o encode(c.call)
      [] OTHER -> <<>>

(***************************************************************************)
(* Storage.  A storage map is a function whose domain is the set of keys   *)
(* that hold a value; a double map is keyed by <<multisig_id, index>>.     *)
(***************************************************************************)
VARIABLES
    NextMultisigId,     \* StorageValue<MultisigId, ValueQuery>
    Multisigs,          \* StorageMap<MultisigId, Multisig>
    Proposals,          \* StorageDoubleMap<MultisigId, ProposalIndex, Proposal>
    NextProposalIndex,  \* StorageMap<MultisigId, ProposalIndex, ValueQuery>
    Approvals,          \* StorageDoubleMap<MultisigId, ProposalIndex, BoundedVec<AccountId>>
    free_balance,       \* T::Currency::free_balance of the sovereign accounts
    last,               \* the extrinsic applied last: its target, result, events, dispatches
    ok_dispatches       \* per proposal: how often its dispatched call returned Ok

vars == <<NextMultisigId, Multisigs, Proposals, NextProposalIndex, Approvals,
          free_balance, last, ok_dispatches>>

EmptyMap == [k \in {} |-> 0]
insert(m, k, v) == [x \in (DOMAIN m) \cup {k} |-> IF x = k THEN v ELSE m[x]]
remove(m, k) == [x \in (DOMAIN m) \ {k} |-> m[x]]
clear_prefix(m, id) == [x \in {k \in DOMAIN m : k[1] # id} |-> m[x]]
contains_key(m, k) == k \in DOMAIN m

\* The getters generated by #[pallet::getter]; ValueQuery items read as the default.
next_proposal_index(s, id) ==
    IF id \in DOMAIN s.NextProposalIndex THEN s.NextProposalIndex[id] ELSE 0
approvals(s, id, idx) ==
    IF <<id, idx>> \in DOMAIN s.Approvals THEN s.Approvals[<<id, idx>>] ELSE <<>>

contains(vec, who) == \E i \in 1..Len(vec) : vec[i] = who

\* The storage the extrinsic in progress reads and writes, with the events it deposits.
Storage ==
    [NextMultisigId |-> NextMultisigId, Multisigs |-> Multisigs,
     Proposals |-> Proposals, NextProposalIndex |-> NextProposalIndex,
     Approvals |-> Approvals, free_balance |-> free_balance, events |-> <<>>]

deposit_event(s, e) == [s EXCEPT !.events = Append(@, e)]

\* A DispatchResult with the storage it leaves; log lists the calls dispatched
\* by execute_proposal (each with what storage held for its proposal when it
\* was dispatched) and the wallet removals, in order.
Ok(s, log) == [st |-> s, res |-> "Ok", log |-> log]
Err(s, e, log) == [st |-> s, res |-> e, log |-> log]

\* Every extrinsic runs in a storage layer: an Err discards what it wrote.
with_storage_layer(s, r) == IF r.res = "Ok" THEN r ELSE [r EXCEPT !.st = s]

(***************************************************************************)
(* The extrinsics.                                                         *)
(***************************************************************************)
\* Mutant: the owner vector is let in one element past its bound.
try_into_bounded_off_by_one(owners) == Len(owners) <= MaxOwners + 1

\* owners.try_into(): a Vec converts to a BoundedVec iff it fits the bound.
try_into_bounded(owners) == Len(owners) <= MaxOwners

\* Mutant: a threshold equal to the number of owners is refused.
threshold_is_valid_strict(threshold, bounded_owners) ==
    threshold > 0 /\ threshold < Len(bounded_owners)

\* Mutant: the threshold is not compared with the number of owners.
threshold_is_valid_no_upper(threshold, bounded_owners) == threshold > 0

\* threshold > 0 && threshold <= bounded_owners.len() as u32
threshold_is_valid(threshold, bounded_owners) ==
    threshold > 0 /\ threshold <= Len(bounded_owners)

\* Mutant: the counter is put back as it was read.
checked_add_none(multisig_id) == multisig_id

\* multisig_id.checked_add(1), below the maximum of the counter.
checked_add_one(multisig_id) == multisig_id + 1

\* Mutant: the addition is not checked, the counter goes on past its maximum.
checked_add_unchecked(value, max) == FALSE

\* value.checked_add(1) is None: the counter holds the maximum of its type.
checked_add_overflows(value, max) == value = max

create_multisig(s, who, owners, threshold) ==
    IF ~try_into_bounded(owners) THEN Err(s, "TooManyOwners", <<>>)
    ELSE IF ~threshold_is_valid(threshold, owners)
    THEN Err(s, "InvalidThreshold", <<>>)
    ELSE LET multisig_id == s.NextMultisigId IN
         IF checked_add_overflows(multisig_id, MaxMultisigId)
         THEN Err(s, "StorageOverflow", <<>>)
         ELSE LET s1 == [s EXCEPT !.NextMultisigId = checked_add_one(multisig_id)]
                  multisig_account == multi_account_id(multisig_id)
                  new_multisig == [owners |-> owners, threshold |-> threshold]
                  s2 == [s1 EXCEPT !.Multisigs = insert(@, multisig_id, new_multisig)]
              IN Ok(deposit_event(s2, [event |-> "MultisigCreated", creator |-> who,
                                       multisig_id |-> multisig_id,
                                       multisig_account |-> multisig_account]), <<>>)

\* Mutant: the approval vector is bounded one below the owner vector.
try_push_fails_one_early(approvals_) == Len(approvals_) >= MaxOwners - 1

\* try_push(..) is Err: the BoundedVec<_, T::MaxOwners> is full.
try_push_fails(approvals_) == Len(approvals_) >= MaxOwners

\* Mutant: the submitter's own approval is not recorded.
seed_approvals_empty(who) == <<>>

\* BoundedVec::new() with the submitter pushed: the submitter confirms
\* their own proposal.
seed_approvals(who) == <<who>>

\* Mutant: submit_proposal advances the proposal counter before it looks at
\* the caller, so that a refused caller leaves the counter advanced.
submit_proposal_counter_first(s, who, multisig_id, call) ==
    IF ~contains_key(s.Multisigs, multisig_id) THEN Err(s, "MultisigNotFound", <<>>)
    ELSE LET multisig == s.Multisigs[multisig_id]
             proposal_index == next_proposal_index(s, multisig_id) IN
    IF proposal_index = MaxProposalIndex THEN Err(s, "StorageOverflow", <<>>)
    ELSE LET s1 == [s EXCEPT !.NextProposalIndex =
                                 insert(@, multisig_id, proposal_index + 1)] IN
    IF ~contains(multisig.owners, who) THEN Err(s1, "NotAnOwner", <<>>)
    ELSE LET call_hash == blake2_256(encode(call))
             new_proposal == [call_hash |-> call_hash, executed |-> FALSE]
             s2 == [s1 EXCEPT !.Proposals =
                                 insert(@, <<multisig_id, proposal_index>>, new_proposal)]
             s3 == [s2 EXCEPT !.Approvals =
                                 insert(@, <<multisig_id, proposal_index>>, <<who>>)]
         IN Ok(deposit_event(s3, [event |-> "ProposalSubmitted",
                                  multisig_id |-> multisig_id,
                                  proposal_index |-> proposal_index,
                                  call_hash |-> call_hash]), <<>>)

submit_proposal(s, who, multisig_id, call) ==
    IF ~contains_key(s.Multisigs, multisig_id) THEN Err(s, "MultisigNotFound", <<>>)
    ELSE LET multisig == s.Multisigs[multisig_id] IN
    IF ~contains(multisig.owners, who) THEN Err(s, "NotAnOwner", <<>>)
    ELSE LET proposal_index == next_proposal_index(s, multisig_id) IN
    IF checked_add_overflows(proposal_index, MaxProposalIndex)
    THEN Err(s, "StorageOverflow", <<>>)
    ELSE LET s1 == [s EXCEPT !.NextProposalIndex =
                                 insert(@, multisig_id, proposal_index + 1)]
             call_hash == blake2_256(encode(call))
             new_proposal == [call_hash |-> call_hash, executed |-> FALSE]
             s2 == [s1 EXCEPT !.Proposals =
                                 insert(@, <<multisig_id, proposal_index>>, new_proposal)]
         IN IF try_push_fails(<<>>) THEN Err(s2, "TooManyOwners", <<>>)
            ELSE LET s3 == [s2 EXCEPT !.Approvals =
                                 insert(@, <<multisig_id, proposal_index>>,
                                        seed_approvals(who))]
                 IN Ok(deposit_event(s3, [event |-> "ProposalSubmitted",
                                          multisig_id |-> multisig_id,
                                          proposal_index |-> proposal_index,
                                          call_hash |-> call_hash]), <<>>)

\* Mutant: confirm_proposal without its executed check.
confirm_already_executed_never(proposal) == FALSE

\* ensure!(!proposal.executed, ..) of confirm_proposal.
confirm_already_executed(proposal) == proposal.executed

\* Mutant: the new approval is put in front of the others.
try_push_front(approvals_, who) == <<who>> \o approvals_

\* approvals.try_push(who.clone()), below the bound of the vector.
try_push(approvals_, who) == Append(approvals_, who)

\* Mutant: confirm_proposal does not look for the caller among the approvals.
already_confirmed_never(approvals_, who) == FALSE

\* ensure!(!approvals.contains(&who), ..).
already_confirmed(approvals_, who) == contains(approvals_, who)

\* Mutant: confirm_proposal looks for the caller among the approvals before it
\* looks at the executed flag.
confirm_proposal_executed_last(s, who, multisig_id, proposal_index) ==
    IF ~contains_key(s.Multisigs, multisig_id) THEN Err(s, "MultisigNotFound", <<>>)
    ELSE LET multisig == s.Multisigs[multisig_id] IN
    IF ~contains(multisig.owners, who) THEN Err(s, "NotAnOwner", <<>>)
    ELSE IF ~contains_key(s.Proposals, <<multisig_id, proposal_index>>)
    THEN Err(s, "ProposalNotFound", <<>>)
    ELSE LET proposal == s.Proposals[<<multisig_id, proposal_index>>] IN
    LET approvals_ == approvals(s, multisig_id, proposal_index) IN
    IF already_confirmed(approvals_, who) THEN Err(s, "AlreadyConfirmed", <<>>)
    ELSE IF confirm_already_executed(proposal) THEN Err(s, "AlreadyExecuted", <<>>)
    ELSE IF try_push_fails(approvals_) THEN Err(s, "TooManyOwners", <<>>)
    ELSE LET s1 == [s EXCEPT !.Approvals =
                        insert(@, <<multisig_id, proposal_index>>,
                               try_push(approvals_, who))]
         IN Ok(deposit_event(s1, [event |-> "Confirmation", who |-> who,
                                  multisig_id |-> multisig_id,
                                  proposal_index |-> proposal_index]), <<>>)

confirm_proposal(s, who, multisig_id, proposal_index) ==
    IF ~contains_key(s.Multisigs, multisig_id) THEN Err(s, "MultisigNotFound", <<>>)
    ELSE LET multisig == s.Multisigs[multisig_id] IN
    IF ~contains(multisig.owners, who) THEN Err(s, "NotAnOwner", <<>>)
    ELSE IF ~contains_key(s.Proposals, <<multisig_id, proposal_index>>)
    THEN Err(s, "ProposalNotFound", <<>>)
    ELSE LET proposal == s.Proposals[<<multisig_id, proposal_index>>] IN
    IF confirm_already_executed(proposal) THEN Err(s, "AlreadyExecuted", <<>>)
    ELSE LET approvals_ == approvals(s, multisig_id, proposal_index) IN
    IF already_confirmed(approvals_, who) THEN Err(s, "AlreadyConfirmed", <<>>)
    ELSE IF try_push_fails(approvals_) THEN Err(s, "TooManyOwners", <<>>)
    ELSE LET s1 == [s EXCEPT !.Approvals =
                        insert(@, <<multisig_id, proposal_index>>,
                               try_push(approvals_, who))]
         IN Ok(deposit_event(s1, [event |-> "Confirmation", who |-> who,
                                  multisig_id |-> multisig_id,
                                  proposal_index |-> proposal_index]), <<>>)

\* Mutant: destroy_multisig accepts the sovereign account of any multisig.
is_multisig_account_of_any_wallet(who, multisig_account) == who >= 65536

\* Mutant: destroy_multisig accepts every signed origin.
is_multisig_account_any(who, multisig_account) == TRUE

\* ensure!(who == multisig_account, ..).
is_multisig_account(who, multisig_account) == who = multisig_account

\* Mutant: destroy_multisig without the balance check.
is_zero_unchecked(balance) == TRUE

\* ensure!(balance.is_zero(), ..).
is_zero(balance) == balance = 0

\* Mutant: the clean-up sweeps the proposals and leaves the multisig stored.
clean_up_keeps_multisig(s, multisig_id) ==
    LET s2 == [s EXCEPT !.NextProposalIndex = remove(@, multisig_id)]
        s3 == [s2 EXCEPT !.Proposals = clear_prefix(@, multisig_id)]
    IN [s3 EXCEPT !.Approvals = clear_prefix(@, multisig_id)]

\* Mutant: the clean-up hands the id of the multisig back to NextMultisigId.
clean_up_reclaims_id(s, multisig_id) ==
    LET s1 == [s EXCEPT !.Multisigs = remove(@, multisig_id)]
        s2 == [s1 EXCEPT !.NextProposalIndex = remove(@, multisig_id)]
        s3 == [s2 EXCEPT !.Proposals = clear_prefix(@, multisig_id)]
        s4 == [s3 EXCEPT !.Approvals = clear_prefix(@, multisig_id)]
    IN [s4 EXCEPT !.NextMultisigId = multisig_id]

\* Mutant: the clean-up leaves the approvals of the multisig behind.
clean_up_keeps_approvals(s, multisig_id) ==
    LET s1 == [s EXCEPT !.Multisigs = remove(@, multisig_id)]
        s2 == [s1 EXCEPT !.NextProposalIndex = remove(@, multisig_id)]
    IN [s2 EXCEPT !.Proposals = clear_prefix(@, multisig_id)]

\* The clean-up of all storage associated with the multisig.
clean_up(s, multisig_id) ==
    LET s1 == [s EXCEPT !.Multisigs = remove(@, multisig_id)]
        s2 == [s1 EXCEPT !.NextProposalIndex = remove(@, multisig_id)]
        s3 == [s2 EXCEPT !.Proposals = clear_prefix(@, multisig_id)]
    IN [s3 EXCEPT !.Approvals = clear_prefix(@, multisig_id)]

\* Mutant: destroy_multisig looks the multisig up before it looks at the caller.
destroy_multisig_lookup_first(s, who, multisig_id) ==
    LET multisig_account == multi_account_id(multisig_id) IN
    IF ~contains_key(s.Multisigs, multisig_id) THEN Err(s, "MultisigNotFound", <<>>)
    ELSE IF ~is_multisig_account(who, multisig_account) THEN Err(s, "MustBeMultisig", <<>>)
    ELSE LET balance == s.free_balance[multisig_account] IN
    IF ~is_zero(balance) THEN Err(s, "NonZeroBalance", <<>>)
    ELSE Ok(deposit_event(clean_up(s, multisig_id),
                          [event |-> "MultisigDestroyed", multisig_id |-> multisig_id]),
            <<[kind |-> "removed", multisig_id |-> multisig_id, balance |-> balance]>>)

\* Mutant: destroy_multisig cleans up and deposits no event.
destroy_multisig_silent(s, who, multisig_id) ==
    LET multisig_account == multi_account_id(multisig_id) IN
    IF ~is_multisig_account(who, multisig_account) THEN Err(s, "MustBeMultisig", <<>>)
    ELSE IF ~contains_key(s.Multisigs, multisig_id) THEN Err(s, "MultisigNotFound", <<>>)
    ELSE LET balance == s.free_balance[multisig_account] IN
    IF ~is_zero(balance) THEN Err(s, "NonZeroBalance", <<>>)
    ELSE Ok(clean_up(s, multisig_id),
            <<[kind |-> "removed", multisig_id |-> multisig_id, balance |-> balance]>>)

destroy_multisig(s, who, multisig_id) ==
    LET multisig_account == multi_account_id(multisig_id) IN
    IF ~is_multisig_account(who, multisig_account) THEN Err(s, "MustBeMultisig", <<>>)
    ELSE IF ~contains_key(s.Multisigs, multisig_id) THEN Err(s, "MultisigNotFound", <<>>)
    ELSE LET balance == s.free_balance[multisig_account] IN
    IF ~is_zero(balance) THEN Err(s, "NonZeroBalance", <<>>)
    ELSE Ok(deposit_event(clean_up(s, multisig_id),
                          [event |-> "MultisigDestroyed", multisig_id |-> multisig_id]),
            <<[kind |-> "removed", multisig_id |-> multisig_id, balance |-> balance]>>)

\* Mutant: execute_proposal without its executed check.
already_executed_never(proposal) == FALSE

\* ensure!(!proposal.executed, ..) of execute_proposal.
already_executed(proposal) == proposal.executed

\* Mutant: execute_proposal without the comparison of the call hash.
call_hash_matches_any(proposal, call_hash) == TRUE

\* ensure!(proposal.call_hash == call_hash, ..).
call_hash_matches(proposal, call_hash) == proposal.call_hash = call_hash

\* Mutant: quorum is taken as reached one approval early.
threshold_met_early(approvals_, multisig) == Len(approvals_) + 1 >= multisig.threshold

\* ensure!(approvals.len() as u32 >= multisig.threshold, ..).
threshold_met(approvals_, multisig) == Len(approvals_) >= multisig.threshold

\* Mutant: the proposal is written back without looking for the multisig.
dispatch_committed_ok_only(result, s1, multisig_id) == result.res = "Ok"

\* Mutant: the proposal is marked executed whatever the dispatch returned.
dispatch_committed_always(result, s1, multisig_id) ==
    contains_key(s1.Multisigs, multisig_id)

\* if result.is_ok() && <Multisigs<T>>::contains_key(multisig_id)
dispatch_committed(result, s1, multisig_id) ==
    result.res = "Ok" /\ contains_key(s1.Multisigs, multisig_id)

\* Mutant: a proposal that was executed is taken out of storage.
write_back_removes(proposals, k, proposal) == remove(proposals, k)

\* proposal.executed = true; <Proposals<T>>::insert(multisig_id, proposal_index, proposal)
write_back(proposals, k, proposal) ==
    insert(proposals, k, [proposal EXCEPT !.executed = TRUE])

\* Mutant: execute_proposal returns the error of the dispatched call.
execute_outcome_propagated(s, result, log) ==
    IF result.res = "Ok" THEN Ok(s, log) ELSE Err(s, result.res, log)

\* The Ok(()) that ends execute_proposal, whatever the dispatch returned.
execute_outcome(s, result, log) == Ok(s, log)

RECURSIVE execute_proposal(_, _, _, _, _)
RECURSIVE dispatch(_, _, _)

\* call.dispatch(origin) for origin = RawOrigin::Signed(who).
dispatch(s, call, who) ==
    CASE call.fn = "transfer_all" ->
            Ok([s EXCEPT !.free_balance[who] = 0], <<>>)
      [] call.fn = "destroy_multisig" ->
            with_storage_layer(s, destroy_multisig(s, who, call.multisig_id))
      [] call.fn = "execute_proposal" ->
            with_storage_layer(s, execute_proposal(s, who, call.multisig_id,
                                                   call.proposal_index, call.call))
      [] OTHER -> Err(s, "CallFiltered", <<>>)

\* Mutant: execute_proposal counts the approvals before it compares the hash.
execute_proposal_quorum_first(s, who, multisig_id, proposal_index, call) ==
    IF ~contains_key(s.Multisigs, multisig_id) THEN Err(s, "MultisigNotFound", <<>>)
    ELSE LET multisig == s.Multisigs[multisig_id] IN
    IF ~contains_key(s.Proposals, <<multisig_id, proposal_index>>)
    THEN Err(s, "ProposalNotFound", <<>>)
    ELSE LET proposal == s.Proposals[<<multisig_id, proposal_index>>] IN
    IF already_executed(proposal) THEN Err(s, "AlreadyExecuted", <<>>)
    ELSE LET approvals_ == approvals(s, multisig_id, proposal_index) IN
    IF ~threshold_met(approvals_, multisig) THEN Err(s, "NotEnoughApprovals", <<>>)
    ELSE LET call_hash == blake2_256(encode(call)) IN
    IF ~call_hash_matches(proposal, call_hash) THEN Err(s, "CallHashMismatch", <<>>)
    ELSE LET multisig_account == multi_account_id(multisig_id)
             result == dispatch(s, call, multisig_account)
             s1 == result.st
             s2 == IF dispatch_committed(result, s1, multisig_id)
                   THEN [s1 EXCEPT !.Proposals =
                            write_back(@, <<multisig_id, proposal_index>>, proposal)]
                   ELSE s1
             entry == [kind |-> "dispatched", multisig_id |-> multisig_id,
                       proposal_index |-> proposal_index, call |-> call,
                       origin |-> multisig_account,
                       stored_hash |-> s.Proposals[<<multisig_id, proposal_index>>].call_hash,
                       approvals |-> Len(approvals(s, multisig_id, proposal_index)),
                       threshold |-> s.Multisigs[multisig_id].threshold,
                       result |-> result.res]
         IN execute_outcome(deposit_event(s2, [event |-> "ProposalExecuted",
                                               multisig_id |-> multisig_id,
                                               proposal_index |-> proposal_index,
                                               result |-> result.res]),
                            result, <<entry>> \o result.log)

\* Mutant: execute_proposal is open to the owners of the multisig only.
execute_proposal_owner_only(s, who, multisig_id, proposal_index, call) ==
    IF ~contains_key(s.Multisigs, multisig_id) THEN Err(s, "MultisigNotFound", <<>>)
    ELSE LET multisig == s.Multisigs[multisig_id] IN
    IF ~contains(multisig.owners, who) THEN Err(s, "NotAnOwner", <<>>)
    ELSE IF ~contains_key(s.Proposals, <<multisig_id, proposal_index>>)
    THEN Err(s, "ProposalNotFound", <<>>)
    ELSE LET proposal == s.Proposals[<<multisig_id, proposal_index>>] IN
    IF already_executed(proposal) THEN Err(s, "AlreadyExecuted", <<>>)
    ELSE LET call_hash == blake2_256(encode(call)) IN
    IF ~call_hash_matches(proposal, call_hash) THEN Err(s, "CallHashMismatch", <<>>)
    ELSE LET approvals_ == approvals(s, multisig_id, proposal_index) IN
    IF ~threshold_met(approvals_, multisig) THEN Err(s, "NotEnoughApprovals", <<>>)
    ELSE LET multisig_account == multi_account_id(multisig_id)
             result == dispatch(s, call, multisig_account)
             s1 == result.st
             s2 == IF dispatch_committed(result, s1, multisig_id)
                   THEN [s1 EXCEPT !.Proposals =
                            write_back(@, <<multisig_id, proposal_index>>, proposal)]
                   ELSE s1
             entry == [kind |-> "dispatched", multisig_id |-> multisig_id,
                       proposal_index |-> proposal_index, call |-> call,
                       origin |-> multisig_account,
                       stored_hash |-> s.Proposals[<<multisig_id, proposal_index>>].call_hash,
                       approvals |-> Len(approvals(s, multisig_id, proposal_index)),
                       threshold |-> s.Multisigs[multisig_id].threshold,
                       result |-> result.res]
         IN execute_outcome(deposit_event(s2, [event |-> "ProposalExecuted",
                                               multisig_id |-> multisig_id,
                                               proposal_index |-> proposal_index,
                                               result |-> result.res]),
                            result, <<entry>> \o result.log)

execute_proposal(s, who, multisig_id, proposal_index, call) ==
    IF ~contains_key(s.Multisigs, multisig_id) THEN Err(s, "MultisigNotFound", <<>>)
    ELSE LET multisig == s.Multisigs[multisig_id] IN
    IF ~contains_key(s.Proposals, <<multisig_id, proposal_index>>)
    THEN Err(s, "ProposalNotFound", <<>>)
    ELSE LET proposal == s.Proposals[<<multisig_id, proposal_index>>] IN
    IF already_executed(proposal) THEN Err(s, "AlreadyExecuted", <<>>)
    ELSE LET call_hash == blake2_256(encode(call)) IN
    IF ~call_hash_matches(proposal, call_hash) THEN Err(s, "CallHashMismatch", <<>>)
    ELSE LET approvals_ == approvals(s, multisig_id, proposal_index) IN
    IF ~threshold_met(approvals_, multisig) THEN Err(s, "NotEnoughApprovals", <<>>)
    ELSE LET multisig_account == multi_account_id(multisig_id)
             result == dispatch(s, call, multisig_account)
             s1 == result.st
             s2 == IF dispatch_committed(result, s1, multisig_id)
                   THEN [s1 EXCEPT !.Proposals =
                            write_back(@, <<multisig_id, proposal_index>>, proposal)]
                   ELSE s1
             entry == [kind |-> "dispatched", multisig_id |-> multisig_id,
                       proposal_index |-> proposal_index, call |-> call,
                       origin |-> multisig_account,
                       stored_hash |-> s.Proposals[<<multisig_id, proposal_index>>].call_hash,
                       approvals |-> Len(approvals(s, multisig_id, proposal_index)),
                       threshold |-> s.Multisigs[multisig_id].threshold,
                       result |-> result.res]
         IN execute_outcome(deposit_event(s2, [event |-> "ProposalExecuted",
                                               multisig_id |-> multisig_id,
                                               proposal_index |-> proposal_index,
                                               result |-> result.res]),
                            result, <<entry>> \o result.log)

(***************************************************************************)
(* The state machine: one transition per extrinsic that the runtime        *)
(* applies and commits.  An extrinsic that returns an error leaves storage *)
(* and events as they were (with_storage_layer): it is a stuttering step,  *)
(* and what it returns is read off the extrinsic's operator in that state. *)
(***************************************************************************)
\* The owner vectors and thresholds handed to create_multisig.
OwnerLists ==
    {[i \in 1..n |-> i] : n \in {0, MaxOwners, MaxOwners + 1}} \cup {<<1, 1>>}
Thresholds == 0..(MaxOwners + 1)

NoArgs == [op |-> "none", multisig_id |-> 0, proposal_index |-> 0]

Min(a, b) == IF a < b THEN a ELSE b

\* How many entries of log are calls of proposal k whose dispatch returned Ok.
OkCount(log, k) ==
    Cardinality({i \in 1..Len(log) :
                    /\ log[i].kind = "dispatched"
                    /\ log[i].result = "Ok"
                    /\ <<log[i].multisig_id, log[i].proposal_index>> = k})

\* Commit the outcome r of the extrinsic described by args.
Apply(args, r) ==
    /\ r.res = "Ok"
    /\ NextMultisigId' = r.st.NextMultisigId
    /\ Multisigs' = r.st.Multisigs
    /\ Proposals' = r.st.Proposals
    /\ NextProposalIndex' = r.st.NextProposalIndex
    /\ Approvals' = r.st.Approvals
    /\ free_balance' = r.st.free_balance
    /\ last' = [args |-> args, events |-> r.st.events, log |-> r.log]
    /\ ok_dispatches' =
          [k \in DOMAIN ok_dispatches |-> Min(2, ok_dispatches[k] + OkCount(r.log, k))]

Init ==
    /\ NextMultisigId = 0
    /\ Multisigs = EmptyMap
    /\ Proposals = EmptyMap
    /\ NextProposalIndex = EmptyMap
    /\ Approvals = EmptyMap
    /\ free_balance = [a \in SovereignAccounts |-> 0]
    /\ last = [args |-> NoArgs, events |-> <<>>, log |-> <<>>]
    /\ ok_dispatches = [k \in MultisigIds \X ProposalIndices |-> 0]

CreateMultisig ==
    \E who \in Users, owners \in OwnerLists, threshold \in Thresholds :
        Apply([NoArgs EXCEPT !.op = "create_multisig"],
              with_storage_layer(Storage, create_multisig(Storage, who, owners, threshold)))

SubmitProposal ==
    \E who \in Users, multisig_id \in MultisigIds, call \in Calls :
        /\ Cardinality(DOMAIN Proposals) < MaxProposals
        /\ Apply([NoArgs EXCEPT !.op = "submit_proposal", !.multisig_id = multisig_id],
                 with_storage_layer(Storage,
                     submit_proposal(Storage, who, multisig_id, call)))

ConfirmProposal ==
    \E who \in Users, multisig_id \in MultisigIds, proposal_index \in ProposalIndices :
        Apply([NoArgs EXCEPT !.op = "confirm_proposal", !.multisig_id = multisig_id,
                             !.proposal_index = proposal_index],
              with_storage_layer(Storage,
                  confirm_proposal(Storage, who, multisig_id, proposal_index)))

ExecuteProposal ==
    \E who \in Users, multisig_id \in MultisigIds, proposal_index \in ProposalIndices,
       call \in Calls :
        Apply([NoArgs EXCEPT !.op = "execute_proposal", !.multisig_id = multisig_id,
                             !.proposal_index = proposal_index],
              with_storage_layer(Storage,
                  execute_proposal(Storage, who, multisig_id, proposal_index, call)))

\* Balances::deposit_creating(&multisig_account, amount): anyone may fund a
\* sovereign account.  Only the balance of a wallet that a call of Calls
\* destroys is ever read.
DestroyTargets == {c.multisig_id : c \in {d \in Calls : d.fn = "destroy_multisig"}}

DepositCreating ==
    \E multisig_id \in DestroyTargets, amount \in 1..MaxBalance :
        LET account == multi_account_id(multisig_id) IN
        /\ free_balance[account] + amount <= MaxBalance
        /\ free_balance' = [free_balance EXCEPT ![account] = @ + amount]
        /\ last' = [args |-> [NoArgs EXCEPT !.op = "deposit_creating",
                                            !.multisig_id = multisig_id],
                    events |-> <<>>, log |-> <<>>]
        /\ UNCHANGED <<NextMultisigId, Multisigs, Proposals, NextProposalIndex,
                       Approvals, ok_dispatches>>

\* destroy_multisig signed by a user is never committed (it returns
\* MustBeMultisig); it is committed only as the call dispatched by
\* ExecuteProposal under the sovereign account.
Next ==
    \/ CreateMultisig
    \/ SubmitProposal
    \/ ConfirmProposal
    \/ ExecuteProposal
    \/ DepositCreating

Spec == Init /\ [][Next]_vars

\* The narrowed digest does not collide on the calls and seeds of the model.
HashInjective ==
    /\ \A c1, c2 \in Calls : blake2_256(encode(c1)) = blake2_256(encode(c2)) => c1 = c2
    /\ \A i, j \in MultisigIds : multi_account_id(i) = multi_account_id(j) => i = j
    /\ SovereignAccounts \cap Users = {}

(***************************************************************************)
(* Reading an extrinsic's outcome in the current state.                    *)
(***************************************************************************)
\* Every signed origin: the users, and the sovereign accounts (which sign
\* only the calls that execute_proposal dispatches).
Accounts == Users \cup SovereignAccounts

\* r rejects the call with error e: nothing dispatched, nothing written or emitted.
Rejects(r, e) == r.res = e /\ r.st = Storage /\ r.log = <<>>

Owners(id) == {Multisigs[id].owners[i] : i \in 1..Len(Multisigs[id].owners)}

Dispatched(log) == {i \in 1..Len(log) : log[i].kind = "dispatched"}
Removed(log) == {i \in 1..Len(log) : log[i].kind = "removed"}

(***************************************************************************)
(* C1.  No double execution: the call of a proposal is dispatched with     *)
(* success at most once, and execute_proposal on a proposal whose executed *)
(* flag is set returns AlreadyExecuted, dispatching and writing nothing.   *)
(***************************************************************************)
C1_NoDoubleExecution ==
    /\ \A k \in DOMAIN ok_dispatches : ok_dispatches[k] <= 1
    /\ \A k \in DOMAIN Proposals :
          Proposals[k].executed =>
             \A who \in Accounts, call \in Calls :
                Rejects(execute_proposal(Storage, who, k[1], k[2], call),
                        "AlreadyExecuted")

\* A proposal was executed with success and is now refused.
C1_Witness ==
    \E k \in DOMAIN Proposals :
        /\ Proposals[k].executed
        /\ ok_dispatches[k] = 1
        /\ execute_proposal(Storage, 1, k[1], k[2], TransferAll).res = "AlreadyExecuted"

(***************************************************************************)
(* C2.  Commit-reveal: every call that execute_proposal dispatches hashes  *)
(* to the call_hash stored for its proposal; execute_proposal of an        *)
(* existing, unexecuted proposal with a call of any other hash returns     *)
(* CallHashMismatch, dispatching and writing nothing.                      *)
(***************************************************************************)
C2_Dispatched ==
    \A i \in Dispatched(last.log) :
        blake2_256(encode(last.log[i].call)) = last.log[i].stored_hash

C2_Rejected ==
    \A k \in DOMAIN Proposals, who \in Accounts, call \in Calls :
        (/\ k[1] \in DOMAIN Multisigs
         /\ ~Proposals[k].executed
         /\ blake2_256(encode(call)) # Proposals[k].call_hash)
        => Rejects(execute_proposal(Storage, who, k[1], k[2], call), "CallHashMismatch")

C2_CommitReveal == C2_Dispatched /\ C2_Rejected

\* A proposal with enough approvals that is executed with another call.
C2_Witness ==
    \E k \in DOMAIN Proposals :
        /\ ~Proposals[k].executed
        /\ Len(approvals(Storage, k[1], k[2])) >= Multisigs[k[1]].threshold
        /\ Proposals[k].call_hash = blake2_256(encode(Destroy(0)))
        /\ execute_proposal(Storage, 3, k[1], k[2], TransferAll).res = "CallHashMismatch"

(***************************************************************************)
(* C3.  Quorum: every call that execute_proposal dispatches belongs to a   *)
(* proposal whose approvals number at least the wallet's threshold;        *)
(* execute_proposal of an existing, unexecuted proposal with the matching  *)
(* call and fewer approvals returns NotEnoughApprovals, dispatching and    *)
(* writing nothing.                                                        *)
(***************************************************************************)
C3_Dispatched ==
    \A i \in Dispatched(last.log) :
        /\ last.log[i].approvals >= last.log[i].threshold
        /\ last.log[i].threshold >= 1

C3_Rejected ==
    \A k \in DOMAIN Proposals, who \in Accounts, call \in Calls :
        (/\ k[1] \in DOMAIN Multisigs
         /\ ~Proposals[k].executed
         /\ blake2_256(encode(call)) = Proposals[k].call_hash
         /\ Len(approvals(Storage, k[1], k[2])) < Multisigs[k[1]].threshold)
        => Rejects(execute_proposal(Storage, who, k[1], k[2], call), "NotEnoughApprovals")

C3_Quorum == C3_Dispatched /\ C3_Rejected

\* A proposal of a 2-of-2 wallet approved by its proposer alone.
C3_Witness ==
    \E k \in DOMAIN Proposals :
        /\ Multisigs[k[1]].threshold = 2
        /\ Len(approvals(Storage, k[1], k[2])) = 1
        /\ Proposals[k].call_hash = blake2_256(encode(TransferAll))
        /\ execute_proposal(Storage, 3, k[1], k[2], TransferAll).res = "NotEnoughApprovals"

(***************************************************************************)
(* C4.  destroy_multisig(id) signed by any account other than              *)
(* multi_account_id(id) returns MustBeMultisig and writes nothing: for the *)
(* users (owners among them) and for the sovereign account of another      *)
(* wallet, whose dispatched destroy_multisig is refused in the same way.   *)
(***************************************************************************)
C4_Direct ==
    \A id \in MultisigIds, who \in Accounts :
        who # multi_account_id(id)
        => Rejects(destroy_multisig(Storage, who, id), "MustBeMultisig")

C4_Dispatched ==
    \A i \in Dispatched(last.log) :
        LET e == last.log[i] IN
        (e.call.fn = "destroy_multisig" /\ e.origin # multi_account_id(e.call.multisig_id))
        => /\ e.result = "MustBeMultisig"
           /\ Removed(last.log) = {}

C4_MustBeMultisig == C4_Direct /\ C4_Dispatched

\* Wallet 1 has executed a proposal to destroy wallet 0, which still exists
\* and refuses its own owner as well.
C4_Witness ==
    /\ 0 \in DOMAIN Multisigs
    /\ 1 \in Owners(0)
    /\ destroy_multisig(Storage, 1, 0).res = "MustBeMultisig"
    /\ \E i \in Dispatched(last.log) :
          /\ last.log[i].call = Destroy(0)
          /\ last.log[i].origin = multi_account_id(1)
          /\ last.log[i].result = "MustBeMultisig"

(***************************************************************************)
(* C5.  No fund-destroying clean-up: a wallet is removed only while the    *)
(* free balance of its sovereign account is zero; destroy_multisig signed  *)
(* by the sovereign account of an existing wallet with a balance returns   *)
(* NonZeroBalance and writes nothing.                                      *)
(***************************************************************************)
C5_Removed ==
    \A i \in Removed(last.log) :
        /\ last.log[i].balance = 0
        /\ free_balance[multi_account_id(last.log[i].multisig_id)] = 0

C5_Rejected ==
    \A id \in DOMAIN Multisigs :
        free_balance[multi_account_id(id)] # 0
        => Rejects(destroy_multisig(Storage, multi_account_id(id), id), "NonZeroBalance")

C5_Dispatched ==
    \A i \in Dispatched(last.log) :
        last.log[i].result = "NonZeroBalance"
        => /\ last.log[i].call.fn = "destroy_multisig"
           /\ last.log[i].call.multisig_id \in DOMAIN Multisigs
           /\ free_balance[last.log[i].origin] # 0

C5_NoFundDestroyingCleanup == C5_Removed /\ C5_Rejected /\ C5_Dispatched

\* The approved destruction of a funded wallet was dispatched and refused.
C5_Witness ==
    /\ 0 \in DOMAIN Multisigs
    /\ free_balance[multi_account_id(0)] # 0
    /\ next_proposal_index(Storage, 0) >= 1
    /\ \E i \in Dispatched(last.log) :
          /\ last.log[i].call = Destroy(0)
          /\ last.log[i].origin = multi_account_id(0)
          /\ last.log[i].result = "NonZeroBalance"

(***************************************************************************)
(* C6.  A destroy_multisig that succeeds removes the wallet, its           *)
(* NextProposalIndex (which then reads 0) and every proposal and approval  *)
(* vector keyed by the wallet's id.                                        *)
(***************************************************************************)
C6_DestroyRemovesAll ==
    \A i \in Removed(last.log) :
        LET id == last.log[i].multisig_id IN
        /\ id \notin DOMAIN Multisigs
        /\ id \notin DOMAIN NextProposalIndex
        /\ next_proposal_index(Storage, id) = 0
        /\ \A k \in DOMAIN Proposals : k[1] # id
        /\ \A k \in DOMAIN Approvals : k[1] # id
        /\ \A idx \in ProposalIndices : approvals(Storage, id, idx) = <<>>

\* Wallet 0 was destroyed by its second proposal after its first proposal had
\* been executed: an executed and an unexecuted proposal were swept.
C6_Witness ==
    /\ last.args = [op |-> "execute_proposal", multisig_id |-> 0, proposal_index |-> 1]
    /\ Len(last.log) = 2
    /\ last.log[1].call = Destroy(0)
    /\ last.log[2].kind = "removed"
    /\ ok_dispatches[<<0, 0>>] = 1

(***************************************************************************)
(* C7.  No orphan records: a proposal, an approval vector or a non-zero    *)
(* NextProposalIndex is stored for a multisig id only while the wallet of  *)
(* that id is stored; an execute_proposal whose dispatched call destroyed  *)
(* its own wallet writes nothing back.                                     *)
(***************************************************************************)
C7_NoOrphans ==
    /\ \A k \in DOMAIN Proposals : k[1] \in DOMAIN Multisigs
    /\ \A k \in DOMAIN Approvals : k[1] \in DOMAIN Multisigs
    /\ \A id \in DOMAIN NextProposalIndex :
          NextProposalIndex[id] # 0 => id \in DOMAIN Multisigs

\* The call dispatched by an execute_proposal of wallet 0 has removed wallet 0.
C7_Witness ==
    /\ last.args.op = "execute_proposal"
    /\ last.args.multisig_id = 0
    /\ last.log[1].result = "Ok"
    /\ \E i \in Removed(last.log) : last.log[i].multisig_id = 0
    /\ 0 \notin DOMAIN Multisigs

(***************************************************************************)
(* C8.  Retry after a failed dispatch: when the call dispatched by         *)
(* execute_proposal returns an error, the proposal stays unexecuted with   *)
(* its hash and approvals as they were, and the same execute_proposal      *)
(* passes its checks and dispatches again, leaving storage as it is, so    *)
(* that it can be repeated any number of times.                            *)
(***************************************************************************)
C8_RetryAfterFailure ==
    (last.args.op = "execute_proposal" /\ last.log[1].result # "Ok")
    => LET e == last.log[1]
           k == <<e.multisig_id, e.proposal_index>>
       IN /\ k \in DOMAIN Proposals
          /\ ~Proposals[k].executed
          /\ Proposals[k].call_hash = e.stored_hash
          /\ Len(approvals(Storage, k[1], k[2])) = e.approvals
          /\ \A who \in Users :
                LET r == execute_proposal(Storage, who, k[1], k[2], e.call) IN
                /\ r.res = "Ok"
                /\ r.log # <<>>
                /\ r.log[1] = e
                /\ [r.st EXCEPT !.events = <<>>] = Storage

\* The approved destruction of a funded wallet was dispatched and failed.
C8_Witness ==
    /\ last.args.op = "execute_proposal"
    /\ last.log[1].call = Destroy(0)
    /\ last.log[1].result = "NonZeroBalance"
    /\ execute_proposal(Storage, 3, last.args.multisig_id, last.args.proposal_index,
                        Destroy(0)).log # <<>>

(***************************************************************************)
(* C9.  execute_proposal returns Ok exactly when its five checks pass      *)
(* (wallet stored, proposal stored, not executed, call hash equal,         *)
(* approvals at the threshold), whether the dispatched call succeeded or   *)
(* failed; it then deposits exactly one ProposalExecuted event for its     *)
(* proposal, last, carrying the result of the dispatched call; any other   *)
(* return is the error of a failed check.                                  *)
(***************************************************************************)
ChecksPass(id, idx, call) ==
    /\ id \in DOMAIN Multisigs
    /\ <<id, idx>> \in DOMAIN Proposals
    /\ ~Proposals[<<id, idx>>].executed
    /\ blake2_256(encode(call)) = Proposals[<<id, idx>>].call_hash
    /\ Len(approvals(Storage, id, idx)) >= Multisigs[id].threshold

ExecutedEvents(events, id, idx) ==
    {i \in 1..Len(events) :
        /\ events[i].event = "ProposalExecuted"
        /\ events[i].multisig_id = id
        /\ events[i].proposal_index = idx}

C9_ExecuteOutcome ==
    \A id \in MultisigIds, idx \in ProposalIndices, call \in Calls, who \in Accounts :
        LET r == execute_proposal(Storage, who, id, idx, call) IN
        IF ChecksPass(id, idx, call)
        THEN /\ r.res = "Ok"
             /\ r.log # <<>>
             /\ r.log[1].call = call
             /\ ExecutedEvents(r.st.events, id, idx) = {Len(r.st.events)}
             /\ r.st.events[Len(r.st.events)].result = r.log[1].result
        ELSE /\ r.res \in {"MultisigNotFound", "ProposalNotFound", "AlreadyExecuted",
                           "CallHashMismatch", "NotEnoughApprovals"}
             /\ Rejects(r, r.res)

\* An execute_proposal was committed although the call it dispatched failed,
\* and its event carries the error.
C9_Witness ==
    /\ last.args.op = "execute_proposal"
    /\ last.log[1].result = "NonZeroBalance"
    /\ last.events = <<[event |-> "ProposalExecuted",
                        multisig_id |-> last.args.multisig_id,
                        proposal_index |-> last.args.proposal_index,
                        result |-> "NonZeroBalance"]>>

(***************************************************************************)
(* C10.  Executed is terminal: while the wallet is stored, a proposal      *)
(* whose executed flag is set keeps it set and keeps its approvals;        *)
(* confirm_proposal by an owner on it returns AlreadyExecuted.             *)
(***************************************************************************)
C10_Step ==
    \A k \in DOMAIN Proposals :
        (Proposals[k].executed /\ k[1] \in DOMAIN Multisigs')
        => /\ k \in DOMAIN Proposals'
           /\ Proposals'[k].executed
           /\ k \in DOMAIN Approvals'
           /\ Approvals'[k] = Approvals[k]

C10_Rejected ==
    \A k \in DOMAIN Proposals :
        (Proposals[k].executed /\ k[1] \in DOMAIN Multisigs)
        => \A who \in Owners(k[1]) :
              Rejects(confirm_proposal(Storage, who, k[1], k[2]), "AlreadyExecuted")

C10_ExecutedIsTerminal == [][C10_Step /\ C10_Rejected']_vars

\* An executed proposal that one owner of its wallet has not approved.
C10_Witness ==
    \E k \in DOMAIN Proposals :
        /\ Proposals[k].executed
        /\ \E who \in Owners(k[1]) :
              /\ ~contains(approvals(Storage, k[1], k[2]), who)
              /\ confirm_proposal(Storage, who, k[1], k[2]).res = "AlreadyExecuted"

(***************************************************************************)
(* C11.  A rejected extrinsic is a no-op: whenever create_multisig,        *)
(* submit_proposal, confirm_proposal, execute_proposal or destroy_multisig *)
(* returns an error, for any signed origin and any arguments, the error is *)
(* one of the pallet's errors, and the wallets, both counters, the         *)
(* proposals and the approvals it leaves are those it found, with no event *)
(* deposited and no call dispatched: each check precedes every write.      *)
(***************************************************************************)
Errors ==
    {"InvalidThreshold", "TooManyOwners", "MultisigNotFound", "ProposalNotFound",
     "NotAnOwner", "MustBeMultisig", "AlreadyConfirmed", "AlreadyExecuted",
     "CallHashMismatch", "NotEnoughApprovals", "NonZeroBalance", "StorageOverflow"}

NoOp(r) == r.res # "Ok" => (r.res \in Errors /\ Rejects(r, r.res))

C11_RejectedIsNoOp ==
    /\ \A who \in Accounts, owners \in OwnerLists, threshold \in Thresholds :
          NoOp(create_multisig(Storage, who, owners, threshold))
    /\ \A who \in Accounts, id \in MultisigIds, call \in Calls :
          NoOp(submit_proposal(Storage, who, id, call))
    /\ \A who \in Accounts, id \in MultisigIds, idx \in ProposalIndices :
          NoOp(confirm_proposal(Storage, who, id, idx))
    /\ \A who \in Accounts, id \in MultisigIds, idx \in ProposalIndices, call \in Calls :
          NoOp(execute_proposal(Storage, who, id, idx, call))
    /\ \A who \in Accounts, id \in MultisigIds :
          NoOp(destroy_multisig(Storage, who, id))

\* Both counters are exhausted, wallet 0 holds a proposal that its proposer
\* alone approved: create, submit, confirm, execute and destroy are all refused.
C11_Witness ==
    /\ create_multisig(Storage, 1, <<1, 2>>, 1).res = "StorageOverflow"
    /\ submit_proposal(Storage, 1, 0, TransferAll).res = "StorageOverflow"
    /\ submit_proposal(Storage, 3, 0, TransferAll).res = "NotAnOwner"
    /\ confirm_proposal(Storage, 1, 0, 0).res = "AlreadyConfirmed"
    /\ execute_proposal(Storage, 1, 0, 0, TransferAll).res = "NotEnoughApprovals"
    /\ destroy_multisig(Storage, 1, 0).res = "MustBeMultisig"

(***************************************************************************)
(* C12.  create_multisig with more owners than MaxOwners returns           *)
(* TooManyOwners; with an owner vector that fits and a threshold that is 0 *)
(* or above the number of owners (any threshold, when there is no owner)   *)
(* it returns InvalidThreshold; either way no wallet is stored and         *)
(* NextMultisigId stays as it was, exhausted or not.                       *)
(***************************************************************************)
C12_CreateRejected ==
    \A who \in Accounts, owners \in OwnerLists, threshold \in Thresholds :
        LET r == create_multisig(Storage, who, owners, threshold) IN
        /\ Len(owners) > MaxOwners => Rejects(r, "TooManyOwners")
        /\ (Len(owners) <= MaxOwners /\ (threshold = 0 \/ threshold > Len(owners)))
           => Rejects(r, "InvalidThreshold")
        /\ r.res \in {"TooManyOwners", "InvalidThreshold"}
           => (r.st.Multisigs = Multisigs /\ r.st.NextMultisigId = NextMultisigId)

\* With one wallet stored and an id left: too many owners, no owner, a zero
\* threshold and a threshold above the owner count are each refused.
C12_Witness ==
    /\ NextMultisigId = 1
    /\ DOMAIN Multisigs = {0}
    /\ create_multisig(Storage, 1, <<1, 2, 3>>, 1).res = "TooManyOwners"
    /\ create_multisig(Storage, 1, <<>>, 0).res = "InvalidThreshold"
    /\ create_multisig(Storage, 1, <<1, 2>>, 0).res = "InvalidThreshold"
    /\ create_multisig(Storage, 1, <<1, 2>>, 3).res = "InvalidThreshold"
    /\ create_multisig(Storage, 1, <<1, 2>>, 2).res = "Ok"

(***************************************************************************)
(* C13.  create_multisig by any signed origin, with                        *)
(* 1 <= threshold <= Len(owners) <= MaxOwners and NextMultisigId not       *)
(* exhausted, returns Ok: it stores under the id that NextMultisigId held  *)
(* (an id that named no wallet) a wallet with exactly these owners, in     *)
(* this order, and this threshold, leaves every other wallet and all other *)
(* storage as it was, advances NextMultisigId by 1 and deposits the one    *)
(* event MultisigCreated with the creator, the id and multi_account_id of  *)
(* the id.                                                                 *)
(***************************************************************************)
C13_CreateSucceeds ==
    \A who \in Accounts, owners \in OwnerLists, threshold \in Thresholds :
        (/\ 1 <= threshold
         /\ threshold <= Len(owners)
         /\ Len(owners) <= MaxOwners
         /\ NextMultisigId < MaxMultisigId)
        => LET r == create_multisig(Storage, who, owners, threshold)
               id == NextMultisigId
           IN /\ r.res = "Ok"
              /\ id \notin DOMAIN Multisigs
              /\ DOMAIN r.st.Multisigs = DOMAIN Multisigs \cup {id}
              /\ r.st.Multisigs[id].owners = owners
              /\ r.st.Multisigs[id].threshold = threshold
              /\ \A other \in DOMAIN Multisigs : r.st.Multisigs[other] = Multisigs[other]
              /\ r.st.NextMultisigId = id + 1
              /\ r.st.events = <<[event |-> "MultisigCreated", creator |-> who,
                                  multisig_id |-> id,
                                  multisig_account |-> multi_account_id(id)]>>
              /\ r.st.Proposals = Proposals
              /\ r.st.NextProposalIndex = NextProposalIndex
              /\ r.st.Approvals = Approvals
              /\ r.st.free_balance = free_balance

\* User 3, who is no owner, has created the second wallet, a 2-of-2 of
\* users 1 and 2, next to a first wallet that holds a proposal.
C13_Witness ==
    /\ last.args.op = "create_multisig"
    /\ last.events = <<[event |-> "MultisigCreated", creator |-> 3, multisig_id |-> 1,
                        multisig_account |-> multi_account_id(1)]>>
    /\ NextMultisigId = 2
    /\ Multisigs[1] = [owners |-> <<1, 2>>, threshold |-> 2]
    /\ <<0, 0>> \in DOMAIN Proposals

(***************************************************************************)
(* C14.  Multisig ids are never reused.  NextMultisigId starts at 0, never *)
(* decreases and is left alone by a transition that removes a wallet;      *)
(* every stored wallet has an id below it; an id below it that names no    *)
(* wallet (its wallet was destroyed) names none in the next state either.  *)
(* While a wallet stays stored its NextProposalIndex never decreases; a    *)
(* wallet just created reads NextProposalIndex 0 and holds no proposal,    *)
(* and every stored proposal has an index below its wallet's counter.      *)
(***************************************************************************)
C14_State ==
    /\ \A id \in DOMAIN Multisigs : id < NextMultisigId
    /\ \A id \in MultisigIds :
          id >= NextMultisigId
          => /\ next_proposal_index(Storage, id) = 0
             /\ \A k \in DOMAIN Proposals : k[1] # id
    /\ \A k \in DOMAIN Proposals : k[2] < next_proposal_index(Storage, k[1])
    /\ NextMultisigId = 0 => create_multisig(Storage, 1, <<1>>, 1).st.events[1].multisig_id = 0
    /\ \A id \in DOMAIN Multisigs : \A who \in Owners(id) :
          next_proposal_index(Storage, id) = 0
          => submit_proposal(Storage, who, id, TransferAll).st.events[1].proposal_index = 0

C14_Step ==
    /\ NextMultisigId' >= NextMultisigId
    /\ Removed(last'.log) # {} => NextMultisigId' = NextMultisigId
    /\ \A id \in MultisigIds :
          /\ (id < NextMultisigId /\ id \notin DOMAIN Multisigs)
             => id \notin DOMAIN Multisigs'
          /\ (id \in DOMAIN Multisigs /\ id \in DOMAIN Multisigs')
             => (IF id \in DOMAIN NextProposalIndex' THEN NextProposalIndex'[id] ELSE 0)
                   >= next_proposal_index(Storage, id)
          /\ (id \notin DOMAIN Multisigs /\ id \in DOMAIN Multisigs')
             => /\ id = NextMultisigId
                /\ id \notin DOMAIN NextProposalIndex'
                /\ \A k \in DOMAIN Proposals' : k[1] # id

C14_IdsNeverReused == [][C14_State /\ C14_Step /\ C14_State']_vars

\* Wallet 0 was destroyed after it had held a proposal, and the wallet created
\* afterwards got id 1 and starts its proposals at 0.
C14_Witness ==
    /\ last.args.op = "create_multisig"
    /\ 0 \notin DOMAIN Multisigs
    /\ 1 \in DOMAIN Multisigs
    /\ NextMultisigId = 2
    /\ next_proposal_index(Storage, 1) = 0
    /\ ok_dispatches[<<0, 0>>] = 1

(***************************************************************************)
(* C15.  Every stored wallet has at least one owner, at most MaxOwners     *)
(* owners, and a threshold from 1 to its number of owners.                 *)
(***************************************************************************)
C15_WalletWellFormed ==
    \A id \in DOMAIN Multisigs :
        /\ 1 <= Multisigs[id].threshold
        /\ Multisigs[id].threshold <= Len(Multisigs[id].owners)
        /\ Len(Multisigs[id].owners) <= MaxOwners

\* Both ends of the range are stored, a 1-of-2 and a 2-of-2 wallet, after a
\* threshold above the owner count was refused and a proposal was executed.
C15_Witness ==
    /\ DOMAIN Multisigs = {0, 1}
    /\ Multisigs[0].threshold = 1
    /\ Multisigs[1].threshold = MaxOwners
    /\ Len(Multisigs[1].owners) = MaxOwners
    /\ \E k \in DOMAIN Proposals : Proposals[k].executed

(***************************************************************************)
(* C16.  The owners of every stored wallet are pairwise distinct: no       *)
(* account stands at two positions of an owner vector.                     *)
(***************************************************************************)
C16_UniqueOwners ==
    \A id \in DOMAIN Multisigs :
        \A i, j \in 1..Len(Multisigs[id].owners) :
            Multisigs[id].owners[i] = Multisigs[id].owners[j] => i = j

(***************************************************************************)
(* C17.  submit_proposal returns MultisigNotFound when the wallet is not   *)
(* stored and NotAnOwner when the caller is not among its owners.  For an  *)
(* owner it returns Ok: it stores [call_hash of the call, executed FALSE]  *)
(* under the index that the wallet's NextProposalIndex held (an index that *)
(* named no proposal), advances that counter by 1, stores <<proposer>> as  *)
(* the approvals of the new proposal, deposits the one event               *)
(* ProposalSubmitted with the id, the index and the hash, and leaves all   *)
(* other storage as it was.                                                *)
(***************************************************************************)
SubmitRejected(who, id, call) ==
    LET r == submit_proposal(Storage, who, id, call) IN
    /\ id \notin DOMAIN Multisigs => Rejects(r, "MultisigNotFound")
    /\ (id \in DOMAIN Multisigs /\ ~contains(Multisigs[id].owners, who))
       => Rejects(r, "NotAnOwner")

SubmitStored(who, id, call) ==
    LET r == submit_proposal(Storage, who, id, call)
        idx == next_proposal_index(Storage, id)
        k == <<id, idx>>
        hash == blake2_256(encode(call))
    IN /\ r.res = "Ok"
       /\ k \notin DOMAIN Proposals
       /\ DOMAIN r.st.Proposals = DOMAIN Proposals \cup {k}
       /\ r.st.Proposals[k] = [call_hash |-> hash, executed |-> FALSE]
       /\ \A other \in DOMAIN Proposals : r.st.Proposals[other] = Proposals[other]
       /\ next_proposal_index(r.st, id) = idx + 1
       /\ \A other \in MultisigIds \ {id} :
             next_proposal_index(r.st, other) = next_proposal_index(Storage, other)
       /\ DOMAIN r.st.Approvals = DOMAIN Approvals \cup {k}
       /\ r.st.Approvals[k] = <<who>>
       /\ \A other \in DOMAIN Approvals \ {k} : r.st.Approvals[other] = Approvals[other]
       /\ r.st.events = <<[event |-> "ProposalSubmitted", multisig_id |-> id,
                           proposal_index |-> idx, call_hash |-> hash]>>
       /\ r.st.Multisigs = Multisigs
       /\ r.st.NextMultisigId = NextMultisigId
       /\ r.st.free_balance = free_balance

\* The claim as it stands: every owner's submit_proposal succeeds.
C17_SubmitAlwaysSucceeds ==
    \A who \in Accounts, id \in MultisigIds, call \in Calls :
        /\ SubmitRejected(who, id, call)
        /\ (id \in DOMAIN Multisigs /\ contains(Multisigs[id].owners, who))
           => SubmitStored(who, id, call)

\* As amended: every owner's submit_proposal succeeds while the wallet's
\* NextProposalIndex is below its maximum.
C17_Submit ==
    \A who \in Accounts, id \in MultisigIds, call \in Calls :
        /\ SubmitRejected(who, id, call)
        /\ (/\ id \in DOMAIN Multisigs
            /\ contains(Multisigs[id].owners, who)
            /\ next_proposal_index(Storage, id) < MaxProposalIndex)
           => SubmitStored(who, id, call)

\* Owner 2 has submitted the second proposal of wallet 0, of which user 3 is
\* no owner, while wallet 1 is not stored.
C17_Witness ==
    /\ last.args = [op |-> "submit_proposal", multisig_id |-> 0, proposal_index |-> 0]
    /\ last.events[1].proposal_index = 1
    /\ Approvals[<<0, 1>>] = <<2>>
    /\ ~Proposals[<<0, 1>>].executed
    /\ submit_proposal(Storage, 3, 0, TransferAll).res = "NotAnOwner"
    /\ submit_proposal(Storage, 2, 1, TransferAll).res = "MultisigNotFound"

(***************************************************************************)
(* C18.  confirm_proposal by an owner on a stored, unexecuted proposal:    *)
(* when the owner is not among its approvals it returns Ok, the approvals  *)
(* become the old vector with the owner appended, one Confirmation event   *)
(* is deposited and all other storage stays as it was; when the owner is   *)
(* among them it returns AlreadyConfirmed and writes nothing.  No account  *)
(* stands twice in an approval vector.                                     *)
(***************************************************************************)
NoDuplicates(vec) == \A i, j \in 1..Len(vec) : vec[i] = vec[j] => i = j

C18_Confirm ==
    /\ \A k \in DOMAIN Approvals : NoDuplicates(Approvals[k])
    /\ \A k \in DOMAIN Proposals :
          (k[1] \in DOMAIN Multisigs /\ ~Proposals[k].executed)
          => \A who \in Owners(k[1]) :
                LET r == confirm_proposal(Storage, who, k[1], k[2])
                    old == approvals(Storage, k[1], k[2])
                IN IF contains(old, who)
                   THEN Rejects(r, "AlreadyConfirmed")
                   ELSE /\ r.res = "Ok"
                        /\ r.st.Approvals[k] = Append(old, who)
                        /\ DOMAIN r.st.Approvals = DOMAIN Approvals \cup {k}
                        /\ \A other \in DOMAIN Approvals \ {k} :
                              r.st.Approvals[other] = Approvals[other]
                        /\ r.st.events = <<[event |-> "Confirmation", who |-> who,
                                            multisig_id |-> k[1],
                                            proposal_index |-> k[2]]>>
                        /\ [r.st EXCEPT !.Approvals = Approvals, !.events = <<>>] = Storage

\* Owner 1 has confirmed the proposal of owner 2 and is refused a second time.
C18_Witness ==
    /\ last.args = [op |-> "confirm_proposal", multisig_id |-> 0, proposal_index |-> 0]
    /\ last.events = <<[event |-> "Confirmation", who |-> 1, multisig_id |-> 0,
                        proposal_index |-> 0]>>
    /\ Approvals[<<0, 0>>] = <<2, 1>>
    /\ ~Proposals[<<0, 0>>].executed
    /\ confirm_proposal(Storage, 1, 0, 0).res = "AlreadyConfirmed"

(***************************************************************************)
(* C19.  The approvals of every stored proposal are owners of its wallet,  *)
(* pairwise distinct, at least one and at most as many as the wallet has   *)
(* owners; exactly the stored proposals have approvals.  A proposal enters *)
(* storage with the one approval of the owner whose submit_proposal stored *)
(* it, and while it is stored its approvals change only by one account     *)
(* appended at the end, so that the proposer stays first.                  *)
(***************************************************************************)
IsPrefix(a, b) == Len(a) <= Len(b) /\ \A i \in 1..Len(a) : a[i] = b[i]

C19_State ==
    /\ DOMAIN Approvals = DOMAIN Proposals
    /\ \A k \in DOMAIN Approvals :
          /\ k[1] \in DOMAIN Multisigs
          /\ \A i \in 1..Len(Approvals[k]) : Approvals[k][i] \in Owners(k[1])
          /\ NoDuplicates(Approvals[k])
          /\ Len(Approvals[k]) >= 1
          /\ Len(Approvals[k]) <= Len(Multisigs[k[1]].owners)

C19_Step ==
    /\ \A k \in DOMAIN Proposals \cap DOMAIN Proposals' :
          /\ IsPrefix(Approvals[k], Approvals'[k])
          /\ Len(Approvals'[k]) <= Len(Approvals[k]) + 1
    /\ \A k \in DOMAIN Proposals' \ DOMAIN Proposals :
          \E who \in Owners(k[1]), call \in Calls :
              LET r == submit_proposal(Storage, who, k[1], call) IN
              /\ r.res = "Ok"
              /\ r.st.Proposals = Proposals'
              /\ Approvals'[k] = <<who>>

C19_Approvals == [][C19_State /\ C19_Step /\ C19_State']_vars

\* The proposal of owner 2 has been confirmed by owner 1: every owner of the
\* wallet has approved, the proposer first.
C19_Witness ==
    /\ last.args.op = "confirm_proposal"
    /\ <<0, 0>> \in DOMAIN Approvals
    /\ Approvals[<<0, 0>>] = <<2, 1>>
    /\ Len(Approvals[<<0, 0>>]) = Len(Multisigs[0].owners)

(***************************************************************************)
(* C20.  A wallet record is immutable: a wallet stored before and after a  *)
(* transition (a create_multisig of another wallet, a submit_proposal, a   *)
(* confirm_proposal, an execute_proposal whatever its dispatched call      *)
(* returned or removed, a deposit) has the same owners and the same        *)
(* threshold after it as before.                                           *)
(***************************************************************************)
C20_WalletImmutable ==
    [][\A id \in DOMAIN Multisigs \cap DOMAIN Multisigs' :
           /\ Multisigs'[id].owners = Multisigs[id].owners
           /\ Multisigs'[id].threshold = Multisigs[id].threshold]_vars

\* Wallet 1 is stored as it was created, after a proposal of its own and the
\* execute_proposal that destroyed wallet 0.
C20_Witness ==
    /\ last.args.op = "execute_proposal"
    /\ Removed(last.log) # {}
    /\ 0 \notin DOMAIN Multisigs
    /\ 1 \in DOMAIN Multisigs
    /\ Multisigs[1] = [owners |-> <<1, 2>>, threshold |-> 2]
    /\ <<1, 0>> \in DOMAIN Proposals

(***************************************************************************)
(* C21.  A stored proposal whose wallet is stored after a transition is    *)
(* stored after it too, with the call_hash it had; if the record differs,  *)
(* then executed went from FALSE to TRUE and the transition is an          *)
(* execute_proposal that dispatched the call of this proposal with result  *)
(* Ok.                                                                     *)
(***************************************************************************)
C21_Step ==
    \A k \in DOMAIN Proposals :
        k[1] \in DOMAIN Multisigs'
        => /\ k \in DOMAIN Proposals'
           /\ Proposals'[k].call_hash = Proposals[k].call_hash
           /\ Proposals'[k] # Proposals[k]
              => /\ ~Proposals[k].executed
                 /\ Proposals'[k].executed
                 /\ last'.args.op = "execute_proposal"
                 /\ \E i \in Dispatched(last'.log) :
                       /\ <<last'.log[i].multisig_id, last'.log[i].proposal_index>> = k
                       /\ last'.log[i].result = "Ok"

C21_ProposalFrame == [][C21_Step]_vars

\* The first proposal of wallet 0 was executed with success and keeps its
\* hash, next to a second proposal that stays stored and unexecuted.
C21_Witness ==
    /\ last.args = [op |-> "execute_proposal", multisig_id |-> 0, proposal_index |-> 0]
    /\ last.log[1].result = "Ok"
    /\ DOMAIN Proposals = {<<0, 0>>, <<0, 1>>}
    /\ Proposals[<<0, 0>>].executed
    /\ Proposals[<<0, 0>>].call_hash = blake2_256(encode(TransferAll))
    /\ ~Proposals[<<0, 1>>].executed

(***************************************************************************)
(* C22.  Destruction only through quorum.  The signed origins of the       *)
(* extrinsics applied are the users, none of whom is a sovereign account.  *)
(* Every transition after which a stored wallet w is no longer stored is   *)
(* an execute_proposal during which the call destroy_multisig(w) was       *)
(* dispatched, with result Ok, under multi_account_id(w), for a proposal   *)
(* of w itself whose stored hash is the hash of that call and whose        *)
(* approvals held at least w's threshold of distinct owners of w.          *)
(***************************************************************************)
C22_Step ==
    \A w \in DOMAIN Multisigs \ DOMAIN Multisigs' :
        /\ last'.args.op = "execute_proposal"
        /\ \E i \in Dispatched(last'.log) :
              LET e == last'.log[i]
                  k == <<w, e.proposal_index>>
              IN /\ e.multisig_id = w
                 /\ e.call = Destroy(w)
                 /\ e.origin = multi_account_id(w)
                 /\ e.result = "Ok"
                 /\ k \in DOMAIN Proposals
                 /\ ~Proposals[k].executed
                 /\ Proposals[k].call_hash = blake2_256(encode(Destroy(w)))
                 /\ e.stored_hash = Proposals[k].call_hash
                 /\ Cardinality({Approvals[k][j] : j \in 1..Len(Approvals[k])}
                                   \cap Owners(w)) >= Multisigs[w].threshold

C22_DestroyOnlyByQuorum == [][Users \cap SovereignAccounts = {} /\ C22_Step]_vars

\* The 2-of-2 wallet 0 was removed by the execute_proposal of wallet 1's
\* proposal, which executed wallet 0's approved proposal to destroy itself.
C22_Witness ==
    /\ last.args.op = "execute_proposal"
    /\ last.args.multisig_id = 1
    /\ Len(last.log) = 3
    /\ last.log[2].call = Destroy(0)
    /\ last.log[2].threshold = 2
    /\ last.log[3].kind = "removed"
    /\ 0 \notin DOMAIN Multisigs

(***************************************************************************)
(* C23.  A destroyed wallet is out of reach for good.  For the id of a     *)
(* wallet that was removed (by the transition just taken, or at any time   *)
(* before: an id below NextMultisigId that names no wallet), every         *)
(* submit_proposal, confirm_proposal and execute_proposal naming it, by    *)
(* any origin, for any index and call, returns MultisigNotFound and writes *)
(* nothing; the id names no wallet in the next state either, and no call   *)
(* is dispatched under its sovereign account again, neither by a later     *)
(* transition nor later in the transition that removed it.                 *)
(***************************************************************************)
Unreachable(id) ==
    \A who \in Accounts :
        /\ \A call \in Calls :
              Rejects(submit_proposal(Storage, who, id, call), "MultisigNotFound")
        /\ \A idx \in ProposalIndices :
              /\ Rejects(confirm_proposal(Storage, who, id, idx), "MultisigNotFound")
              /\ \A call \in Calls :
                    Rejects(execute_proposal(Storage, who, id, idx, call),
                            "MultisigNotFound")

Destroyed == {id \in MultisigIds : id < NextMultisigId /\ id \notin DOMAIN Multisigs}

C23_State ==
    /\ \A i \in Removed(last.log) :
          /\ last.log[i].multisig_id \in Destroyed
          /\ \A j \in Dispatched(last.log) :
                j > i => last.log[j].origin # multi_account_id(last.log[i].multisig_id)
    /\ \A id \in Destroyed : Unreachable(id)

C23_Step ==
    \A id \in Destroyed :
        /\ id \notin DOMAIN Multisigs'
        /\ \A j \in Dispatched(last'.log) : last'.log[j].origin # multi_account_id(id)

C23_DestroyedForGood == [][C23_State /\ C23_Step /\ C23_State']_vars

\* The 1-of-2 wallet 0 was destroyed by its second proposal while its first
\* proposal, approved by its proposer and so quorate, had not been executed.
C23_Witness ==
    /\ last.args = [op |-> "execute_proposal", multisig_id |-> 0, proposal_index |-> 1]
    /\ last.log[1].threshold = 1
    /\ Removed(last.log) # {}
    /\ ok_dispatches[<<0, 0>>] = 0
    /\ 0 \in Destroyed
    /\ execute_proposal(Storage, 1, 0, 0, TransferAll).res = "MultisigNotFound"

(***************************************************************************)
(* C24.  One event per committed call, in the order of commitment.  A      *)
(* create_multisig, submit_proposal or confirm_proposal that is applied    *)
(* deposits exactly one event, MultisigCreated, ProposalSubmitted or       *)
(* Confirmation.  An execute_proposal that is applied deposits one         *)
(* ProposalExecuted for itself, last, preceded by the events of the call   *)
(* it dispatched if that call succeeded: the MultisigDestroyed of a        *)
(* destroy_multisig, or the events of a nested execute_proposal; so the    *)
(* MultisigDestroyed of a wallet destroyed by its own proposal comes       *)
(* before the ProposalExecuted of that proposal, which is deposited        *)
(* although the wallet is gone.  A call that returns an error deposits     *)
(* nothing.                                                                *)
(***************************************************************************)
Reverse(seq) == [i \in 1..Len(seq) |-> seq[Len(seq) + 1 - i]]

\* The events that the calls of log deposit: the log lists each dispatch
\* before what the dispatched call did, an event follows what its call did.
ExpectedEvents(log) ==
    LET destroyed == [i \in 1..Len(log) |->
                         [event |-> "MultisigDestroyed",
                          multisig_id |-> log[i].multisig_id]]
        executed == [i \in 1..Len(log) |->
                         [event |-> "ProposalExecuted",
                          multisig_id |-> log[i].multisig_id,
                          proposal_index |-> log[i].proposal_index,
                          result |-> log[i].result]]
    IN Reverse([i \in 1..Len(log) |->
                   IF log[i].kind = "removed" THEN destroyed[i] ELSE executed[i]])

C24_Committed ==
    /\ last.args.op = "create_multisig"
       => (Len(last.events) = 1 /\ last.events[1].event = "MultisigCreated")
    /\ last.args.op = "submit_proposal"
       => (Len(last.events) = 1 /\ last.events[1].event = "ProposalSubmitted")
    /\ last.args.op = "confirm_proposal"
       => (Len(last.events) = 1 /\ last.events[1].event = "Confirmation")
    /\ last.args.op = "execute_proposal"
       => /\ last.events = ExpectedEvents(last.log)
          /\ last.log[1].multisig_id = last.args.multisig_id
          /\ last.log[1].proposal_index = last.args.proposal_index
          /\ \A i \in 1..Len(last.log) :
                /\ (last.log[i].kind = "removed" \/ last.log[i].result # "Ok")
                   => i = Len(last.log)
                /\ last.log[i].kind = "removed"
                   => (i > 1 /\ last.log[i - 1].call = Destroy(last.log[i].multisig_id)
                             /\ last.log[i - 1].result = "Ok")
    /\ last.args.op \in {"none", "deposit_creating"} => last.events = <<>>

C24_Rejected ==
    \A who \in Accounts, id \in MultisigIds :
        /\ \A owners \in OwnerLists, threshold \in Thresholds :
              LET r == with_storage_layer(Storage,
                           create_multisig(Storage, who, owners, threshold))
              IN r.res # "Ok" => r.st.events = <<>>
        /\ \A call \in Calls :
              LET r == with_storage_layer(Storage, submit_proposal(Storage, who, id, call))
              IN r.res # "Ok" => r.st.events = <<>>
        /\ \A idx \in ProposalIndices :
              LET r == with_storage_layer(Storage,
                           confirm_proposal(Storage, who, id, idx))
              IN r.res # "Ok" => r.st.events = <<>>
        /\ \A idx \in ProposalIndices, call \in Calls :
              LET r == with_storage_layer(Storage,
                           execute_proposal(Storage, who, id, idx, call))
              IN r.res # "Ok" => r.st.events = <<>>
        /\ LET r == with_storage_layer(Storage, destroy_multisig(Storage, who, id))
           IN IF r.res = "Ok"
              THEN r.st.events = <<[event |-> "MultisigDestroyed", multisig_id |-> id]>>
              ELSE r.st.events = <<>>

C24_OneEventPerCall == C24_Committed /\ C24_Rejected

\* Wallet 0 was destroyed by the call of its own proposal: MultisigDestroyed
\* comes first, then the ProposalExecuted of a wallet that is gone.
C24_Witness ==
    /\ last.args.op = "execute_proposal"
    /\ last.args.multisig_id = 0
    /\ 0 \notin DOMAIN Multisigs
    /\ last.events = <<[event |-> "MultisigDestroyed", multisig_id |-> 0],
                       [event |-> "ProposalExecuted", multisig_id |-> 0,
                        proposal_index |-> last.args.proposal_index, result |-> "Ok"]>>

(***************************************************************************)
(* C25.  execute_proposal reports the first of its checks that fails, in   *)
(* the order: wallet stored (MultisigNotFound), proposal stored            *)
(* (ProposalNotFound), not executed (AlreadyExecuted), hash of the call    *)
(* equal to the stored hash (CallHashMismatch), approvals at the threshold *)
(* (NotEnoughApprovals); it returns Ok when none fails.  So another call   *)
(* on an under-approved proposal gives CallHashMismatch and any call on an *)
(* executed proposal gives AlreadyExecuted.                                *)
(***************************************************************************)
ExecuteFirstFailure(id, idx, call) ==
    IF id \notin DOMAIN Multisigs THEN "MultisigNotFound"
    ELSE IF <<id, idx>> \notin DOMAIN Proposals THEN "ProposalNotFound"
    ELSE IF Proposals[<<id, idx>>].executed THEN "AlreadyExecuted"
    ELSE IF blake2_256(encode(call)) # Proposals[<<id, idx>>].call_hash
    THEN "CallHashMismatch"
    ELSE IF Len(approvals(Storage, id, idx)) < Multisigs[id].threshold
    THEN "NotEnoughApprovals"
    ELSE "Ok"

C25_ExecuteCheckOrder ==
    \A who \in Accounts, id \in MultisigIds, idx \in ProposalIndices, call \in Calls :
        execute_proposal(Storage, who, id, idx, call).res = ExecuteFirstFailure(id, idx, call)

\* A 2-of-2 wallet with an executed proposal and a proposal that its
\* proposer alone approved: two checks fail at once on each.
C25_Witness ==
    /\ DOMAIN Proposals = {<<0, 0>>, <<0, 1>>}
    /\ Multisigs[0].threshold = 2
    /\ Proposals[<<0, 0>>].executed
    /\ Proposals[<<0, 0>>].call_hash = blake2_256(encode(TransferAll))
    /\ Len(Approvals[<<0, 1>>]) = 1
    /\ Proposals[<<0, 1>>].call_hash = blake2_256(encode(TransferAll))
    /\ execute_proposal(Storage, 1, 0, 0, Destroy(0)).res = "AlreadyExecuted"
    /\ execute_proposal(Storage, 1, 0, 1, Destroy(0)).res = "CallHashMismatch"
    /\ execute_proposal(Storage, 1, 0, 1, TransferAll).res = "NotEnoughApprovals"
    /\ execute_proposal(Storage, 1, 1, 0, TransferAll).res = "MultisigNotFound"

(***************************************************************************)
(* C26.  destroy_multisig reports the first of its checks that fails, in   *)
(* the order: caller is multi_account_id(id) (MustBeMultisig), wallet      *)
(* stored (MultisigNotFound), free balance zero (NonZeroBalance).  For an  *)
(* id that names no wallet every other caller gets MustBeMultisig and the  *)
(* sovereign account of the id gets MultisigNotFound, whatever its         *)
(* balance; NonZeroBalance is returned only to the sovereign account of a  *)
(* stored wallet.                                                          *)
(***************************************************************************)
DestroyFirstFailure(who, id) ==
    IF who # multi_account_id(id) THEN "MustBeMultisig"
    ELSE IF id \notin DOMAIN Multisigs THEN "MultisigNotFound"
    ELSE IF free_balance[multi_account_id(id)] # 0 THEN "NonZeroBalance"
    ELSE "Ok"

C26_DestroyCheckOrder ==
    \A who \in Accounts, id \in MultisigIds :
        LET r == destroy_multisig(Storage, who, id) IN
        /\ r.res = DestroyFirstFailure(who, id)
        /\ r.res = "NonZeroBalance"
           => (id \in DOMAIN Multisigs /\ who = multi_account_id(id))

\* Wallet 0 was destroyed and its sovereign account funded afterwards: the
\* account is told that the wallet is not found, a user that it is not the
\* multisig.
C26_Witness ==
    /\ last.args.op = "deposit_creating"
    /\ 0 \in Destroyed
    /\ free_balance[multi_account_id(0)] # 0
    /\ destroy_multisig(Storage, multi_account_id(0), 0).res = "MultisigNotFound"
    /\ destroy_multisig(Storage, 1, 0).res = "MustBeMultisig"
    /\ destroy_multisig(Storage, multi_account_id(1), 0).res = "MustBeMultisig"

(***************************************************************************)
(* C27.  confirm_proposal reports the first of its checks that fails, in   *)
(* the order: wallet stored (MultisigNotFound), caller among the owners    *)
(* (NotAnOwner), proposal stored (ProposalNotFound), not executed          *)
(* (AlreadyExecuted), caller not among the approvals (AlreadyConfirmed);   *)
(* it returns Ok when none fails.  So whoever is no owner of a stored      *)
(* wallet gets NotAnOwner, for a missing proposal too, and an owner who    *)
(* approved a proposal that was executed since gets AlreadyExecuted.       *)
(***************************************************************************)
ConfirmFirstFailure(who, id, idx) ==
    IF id \notin DOMAIN Multisigs THEN "MultisigNotFound"
    ELSE IF who \notin Owners(id) THEN "NotAnOwner"
    ELSE IF <<id, idx>> \notin DOMAIN Proposals THEN "ProposalNotFound"
    ELSE IF Proposals[<<id, idx>>].executed THEN "AlreadyExecuted"
    ELSE IF who \in {Approvals[<<id, idx>>][i] : i \in 1..Len(Approvals[<<id, idx>>])}
    THEN "AlreadyConfirmed"
    ELSE "Ok"

C27_ConfirmCheckOrder ==
    \A who \in Accounts, id \in MultisigIds, idx \in ProposalIndices :
        confirm_proposal(Storage, who, id, idx).res = ConfirmFirstFailure(who, id, idx)

\* Owner 1 approved the only proposal of wallet 0, which was executed since;
\* user 3 is no owner.
C27_Witness ==
    /\ DOMAIN Proposals = {<<0, 0>>}
    /\ Proposals[<<0, 0>>].executed
    /\ contains(Approvals[<<0, 0>>], 1)
    /\ confirm_proposal(Storage, 1, 0, 0).res = "AlreadyExecuted"
    /\ confirm_proposal(Storage, 3, 0, 1).res = "NotAnOwner"
    /\ confirm_proposal(Storage, 3, 0, 0).res = "NotAnOwner"
    /\ confirm_proposal(Storage, 1, 0, 1).res = "ProposalNotFound"

(***************************************************************************)
(* C28.  execute_proposal does not depend on its caller: in every state,   *)
(* for every wallet id, proposal index and call, every signed origin (an   *)
(* owner who approved, an owner who did not, an account that is no owner)  *)
(* gets what user 1 gets, and so any two get the same: the same result,    *)
(* the same storage, the same events and the same dispatches.              *)
(***************************************************************************)
C28_ExecuteCallerIndependent ==
    \A id \in MultisigIds, idx \in ProposalIndices, call \in Calls :
        LET first == execute_proposal(Storage, 1, id, idx, call) IN
        \A who \in Accounts : execute_proposal(Storage, who, id, idx, call) = first

\* The proposal of owner 1 in the 1-of-2 wallet 0 is executed alike by
\* owner 1, by owner 2, who never approved, and by user 3, who is no owner.
C28_Witness ==
    /\ <<0, 0>> \in DOMAIN Proposals
    /\ Owners(0) = {1, 2}
    /\ Approvals[<<0, 0>>] = <<1>>
    /\ Proposals[<<0, 0>>].call_hash = blake2_256(encode(Destroy(0)))
    /\ execute_proposal(Storage, 3, 0, 0, Destroy(0)).res = "Ok"
    /\ execute_proposal(Storage, 3, 0, 0, Destroy(0)).log[1].result = "Ok"
    /\ execute_proposal(Storage, 2, 0, 0, Destroy(0))
          = execute_proposal(Storage, 3, 0, 0, Destroy(0))

(***************************************************************************)
(* C29.  Counter exhaustion.  No counter exceeds the maximum of its type.  *)
(* While NextMultisigId holds the maximum, no create_multisig succeeds: one *)
(* with a valid owner vector and threshold returns StorageOverflow.  While *)
(* the NextProposalIndex of a wallet holds the maximum, submit_proposal by *)
(* any owner of it returns StorageOverflow.  Either call leaves storage as *)
(* it was: no record stored or overwritten, no counter changed or wrapped. *)
(***************************************************************************)
C29_CounterExhaustion ==
    /\ NextMultisigId <= MaxMultisigId
    /\ \A id \in MultisigIds : next_proposal_index(Storage, id) <= MaxProposalIndex
    /\ NextMultisigId = MaxMultisigId
       => \A who \in Accounts, owners \in OwnerLists, threshold \in Thresholds :
             LET r == create_multisig(Storage, who, owners, threshold) IN
             /\ r.res # "Ok"
             /\ Rejects(r, r.res)
             /\ (1 <= threshold /\ threshold <= Len(owners) /\ Len(owners) <= MaxOwners)
                => r.res = "StorageOverflow"
    /\ \A id \in DOMAIN Multisigs :
          next_proposal_index(Storage, id) = MaxProposalIndex
          => \A who \in Owners(id), call \in Calls :
                Rejects(submit_proposal(Storage, who, id, call), "StorageOverflow")

\* The last wallet id and the last proposal index of wallet 0 are used up.
C29_Witness ==
    /\ NextMultisigId = MaxMultisigId
    /\ Cardinality(DOMAIN Multisigs) = MaxMultisigId
    /\ next_proposal_index(Storage, 0) = MaxProposalIndex
    /\ Cardinality(DOMAIN Proposals) = MaxProposalIndex
    /\ create_multisig(Storage, 3, <<1, 2>>, 2).res = "StorageOverflow"
    /\ submit_proposal(Storage, 2, 0, Destroy(0)).res = "StorageOverflow"

(***************************************************************************)
(* C30.  Quorum is always reachable: for every stored, unexecuted proposal *)
(* of a stored wallet, once every account among the wallet's owners is     *)
(* among its approvals, the approvals number at least the threshold and    *)
(* execute_proposal with the call of the stored hash passes the quorum     *)
(* check.                                                                  *)
(***************************************************************************)
C30_QuorumReachable ==
    \A k \in DOMAIN Proposals :
        (/\ k[1] \in DOMAIN Multisigs
         /\ ~Proposals[k].executed
         /\ \A who \in Owners(k[1]) : contains(approvals(Storage, k[1], k[2]), who))
        => /\ Len(approvals(Storage, k[1], k[2])) >= Multisigs[k[1]].threshold
           /\ \A call \in Calls :
                 blake2_256(encode(call)) = Proposals[k].call_hash
                 => execute_proposal(Storage, 1, k[1], k[2], call).res = "Ok"

(***************************************************************************)
(* C31.  TooManyOwners is no result of submit_proposal or confirm_proposal *)
(* in any reachable state, for any signed origin and any argument: no      *)
(* approval vector is longer than MaxOwners, the submitter always fits     *)
(* into the fresh vector, and a vector that is full holds every owner of   *)
(* its wallet, so that whoever would be pushed onto it is refused before   *)
(* as no owner or as already confirmed.                                    *)
(***************************************************************************)
C31_NoTooManyOwners ==
    /\ \A k \in DOMAIN Approvals : Len(Approvals[k]) <= MaxOwners
    /\ \A who \in Accounts, id \in MultisigIds :
          /\ \A call \in Calls :
                submit_proposal(Storage, who, id, call).res # "TooManyOwners"
          /\ \A idx \in ProposalIndices :
                confirm_proposal(Storage, who, id, idx).res # "TooManyOwners"

\* The approvals of an unexecuted proposal are full: both owners of the
\* wallet are in, and nobody is left whose confirmation would be pushed.
C31_Witness ==
    /\ last.args.op = "confirm_proposal"
    /\ <<0, 0>> \in DOMAIN Approvals
    /\ Len(Approvals[<<0, 0>>]) = MaxOwners
    /\ ~Proposals[<<0, 0>>].executed
    /\ confirm_proposal(Storage, 1, 0, 0).res = "AlreadyConfirmed"
    /\ confirm_proposal(Storage, 2, 0, 0).res = "AlreadyConfirmed"
    /\ confirm_proposal(Storage, 3, 0, 0).res = "NotAnOwner"
    /\ submit_proposal(Storage, 1, 0, TransferAll).res = "Ok"

====
